---- MODULE Spec2Model ----
(***************************************************************************)
(* Streaming technical-analysis indicators of tam-rs: the Average          *)
(* Directional Index (ADX), the Relative Strength Index (RSI) and the      *)
(* rolling Pearson Correlation, each with its constructor `new`, its       *)
(* update `next` and its `reset`.                                          *)
(*                                                                         *)
(* f64 values are modelled as exact rationals <<n, d>> in lowest terms     *)
(* with d > 0; the f64 NaN is the pair <<0, 0>>.  Inputs are finite, so    *)
(* no stored field is ever NaN: NaN only occurs as a value returned by     *)
(* next.  Option<f64> is a sequence of length at most one.                 *)
(*                                                                         *)
(* ADX and RSI branch on comparisons of inputs and on whether sums of      *)
(* non-negative terms are zero, which rounding does not change; their      *)
(* arithmetic is exact.  Correlation branches on the sign of               *)
(* sum_x2 - sum_x^2/n, a difference of nearly equal quantities whose sign  *)
(* rounding decides; its arithmetic rounds every result to the nearest     *)
(* binary floating-point value of MantissaBits significant bits, ties to   *)
(* even, as f64 does with 53 bits.                                         *)
(***************************************************************************)
EXTENDS Integers, Sequences, FiniteSets, TLC

\* ------------------------------------------------------------------------
\* Bounds of the model
\* ------------------------------------------------------------------------
MaxPeriodADX == 3
MaxTicksADX == 6
MaxPeriodRSI == 3
MaxTicksRSI == 6
MaxInputRSI == 2
MaxPeriodCORREL == 3
MaxTicksCORREL == 3
MaxInputCORREL == 1
\* significant bits of the floating-point format of Correlation's arithmetic
MantissaBits == 3
\* period() is called after at most this many next calls since new or reset
MaxTicksPeriod == 2
\* long runs of ADX: next calls since new or reset, and how many of the first
\* of them choose their bar freely (the later ones repeat the bar before)
MaxTicksLong == 20
MaxVariedTicks == 3

\* ------------------------------------------------------------------------
\* f64 arithmetic on exact rationals
\* ------------------------------------------------------------------------
RECURSIVE GCD(_, _)
GCD(a, b) == IF b = 0 THEN a ELSE GCD(b, a % b)

IAbs(k) == IF k < 0 THEN -k ELSE k

Norm(n, d) ==
    LET g == GCD(IAbs(n), IAbs(d))
        s == IF d < 0 THEN -1 ELSE 1
    IN <<(s * n) \div g, (s * d) \div g>>

ToR(k) == <<k, 1>>
NaN == <<0, 0>>
IsNaN(x) == x[2] = 0

RAdd(x, y) ==
    LET g == GCD(x[2], y[2])
    IN Norm(x[1] * (y[2] \div g) + y[1] * (x[2] \div g), x[2] * (y[2] \div g))
RNeg(x) == <<-x[1], x[2]>>
RSub(x, y) == RAdd(x, RNeg(y))
RMul(x, y) ==
    LET a == GCD(IAbs(x[1]), y[2])
        b == GCD(IAbs(y[1]), x[2])
    IN Norm((x[1] \div a) * (y[1] \div b), (x[2] \div b) * (y[2] \div a))
\* Division is only used where the code has guarded the divisor.
RDiv(x, y) ==
    LET a == GCD(IAbs(x[1]), IAbs(y[1]))
        b == GCD(x[2], y[2])
    IN Norm((x[1] \div a) * (y[2] \div b), (x[2] \div b) * (y[1] \div a))
RLt(x, y) == x[1] * y[2] < y[1] * x[2]
RLe(x, y) == x[1] * y[2] <= y[1] * x[2]
RGt(x, y) == RLt(y, x)
RGe(x, y) == RLe(y, x)
RAbs(x) == <<IAbs(x[1]), x[2]>>
RMax(x, y) == IF RLt(x, y) THEN y ELSE x
\* f64::round: to the nearest integer, halves away from zero.
RRound(x) ==
    IF x[1] >= 0
    THEN ToR((2 * x[1] + x[2]) \div (2 * x[2]))
    ELSE ToR(-((2 * (-x[1]) + x[2]) \div (2 * x[2])))

RECURSIVE RSumSeq(_)
RSumSeq(s) == IF s = <<>> THEN ToR(0) ELSE RAdd(s[1], RSumSeq(Tail(s)))

\* Floating-point arithmetic: the exact result rounded to the nearest value
\* m * 2^e with m < 2^MantissaBits, ties to the even m (the exponent range is
\* not bounded: no overflow or underflow).
RECURSIVE Pow2(_)
Pow2(k) == IF k = 0 THEN 1 ELSE 2 * Pow2(k - 1)

\* A significand m satisfies SignificandMin <= m < SignificandLimit.
SignificandLimit == Pow2(MantissaBits)
SignificandMin == Pow2(MantissaBits - 1)

RECURSIVE FNearest(_, _)
FNearest(n, d) ==
    IF n >= SignificandLimit * d
    THEN LET h == FNearest(n, 2 * d) IN Norm(2 * h[1], h[2])
    ELSE IF n < SignificandMin * d
    THEN LET t == FNearest(2 * n, d) IN Norm(t[1], 2 * t[2])
    ELSE LET q == n \div d
             r == n % d
         IN IF 2 * r > d \/ (2 * r = d /\ q % 2 = 1)
            THEN ToR(q + 1)
            ELSE ToR(q)

FRound(x) ==
    IF x[1] = 0 THEN x
    ELSE IF x[1] > 0 THEN FNearest(x[1], x[2])
    ELSE RNeg(FNearest(-x[1], x[2]))

FAdd(x, y) == FRound(RAdd(x, y))
FSub(x, y) == FRound(RSub(x, y))
FMul(x, y) == FRound(RMul(x, y))
FDiv(x, y) == FRound(RDiv(x, y))

None == <<>>
Some(x) == <<x>>
Unwrap(o) == o[1]

\* ------------------------------------------------------------------------
\* State
\* ------------------------------------------------------------------------
VARIABLES
    engine,   \* which indicator type this caller constructed
    arg,      \* the period passed to new
    rnd,      \* ADX: whether with_rounding() was applied to the new instance
    live,     \* new returned Ok: the caller holds an instance
    adx,      \* the AverageDirectionalIndex instance
    rsi,      \* the RelativeStrengthIndex instance
    corr,     \* the Correlation instance
    op,       \* the last operation called: "new", "next" or "reset"
    status,   \* its outcome: "Ok", "InvalidParameter", "F64", "Unit", "Panic"
    out,      \* the f64 returned by the last next
    hist,     \* the inputs given to next since construction or the last reset
    fed       \* after reset: how many next calls the instance had received

vars == <<engine, arg, rnd, live, adx, rsi, corr, op, status, out, hist, fed>>

\* ------------------------------------------------------------------------
\* Average Directional Index
\* ------------------------------------------------------------------------
DEFAULT_UNSTABLE_PERIOD == 15
DEFAULT_ROUND_POS == FALSE
MIN_VALUE == ToR(0)
MAX_VALUE == ToR(100)

\* The value held in place of an instance when none was constructed.
NoADX ==
    [period |-> 0, prev_high |-> None, prev_low |-> None, prev_close |-> None,
     prev_plus_dm |-> ToR(0), prev_minus_dm |-> ToR(0), prev_tr |-> ToR(0),
     prev_adx |-> ToR(0), dx_values |-> <<>>, dx_count |-> 0,
     is_initialized |-> FALSE, unstable_period |-> 0,
     unstable_period_count |-> 0, round_pos |-> FALSE]

\* ADX_new accepting period 1: only 0 is rejected.
ADX_new_accepts_one(period) ==
    IF period = 0
    THEN [ok |-> FALSE, self |-> NoADX]
    ELSE [ok |-> TRUE,
          self |-> [NoADX EXCEPT !.period = period,
                                 !.unstable_period = DEFAULT_UNSTABLE_PERIOD]]

ADX_new(period) ==
    IF period = 0 \/ period = 1
    THEN [ok |-> FALSE, self |-> NoADX]
    ELSE [ok |-> TRUE,
          self |-> [period |-> period,
                    prev_high |-> None,
                    prev_low |-> None,
                    prev_close |-> None,
                    prev_plus_dm |-> ToR(0),
                    prev_minus_dm |-> ToR(0),
                    prev_tr |-> ToR(0),
                    prev_adx |-> ToR(0),
                    dx_values |-> <<>>,
                    dx_count |-> 0,
                    is_initialized |-> FALSE,
                    unstable_period |-> DEFAULT_UNSTABLE_PERIOD,
                    unstable_period_count |-> 0,
                    round_pos |-> DEFAULT_ROUND_POS]]

with_rounding(self) == [self EXCEPT !.round_pos = TRUE]

\* period(&self) -> usize
ADX_period(self) == self.period

\* Only called after the first tick; the else branch is kept as in the code.
calculate_tr(self, high, low) ==
    IF self.prev_close # None
    THEN LET prev_close == Unwrap(self.prev_close)
             range == RSub(high, low)
             high_close == RAbs(RSub(high, prev_close))
             low_close == RAbs(RSub(low, prev_close))
         IN RMax(RMax(range, high_close), low_close)
    ELSE RSub(high, low)

round_pos(self, x) == IF self.round_pos THEN RRound(x) ELSE x

\* (+DM1, -DM1) of a tick.
\* DirectionalMovement whose first case hands out diff_p instead of diff_m.
DirectionalMovement_minus_takes_diff_p(diff_p, diff_m) ==
    IF RGt(diff_m, MIN_VALUE) /\ RLt(diff_p, diff_m)
    THEN [plus_dm1 |-> MIN_VALUE, minus_dm1 |-> diff_p]
    ELSE IF RGt(diff_p, MIN_VALUE) /\ RGt(diff_p, diff_m)
         THEN [plus_dm1 |-> diff_p, minus_dm1 |-> MIN_VALUE]
         ELSE [plus_dm1 |-> MIN_VALUE, minus_dm1 |-> MIN_VALUE]

\* DirectionalMovement that gives a tie diff_p = diff_m > 0 to +DM.
DirectionalMovement_ties_to_plus(diff_p, diff_m) ==
    IF RGt(diff_m, MIN_VALUE) /\ RLt(diff_p, diff_m)
    THEN [plus_dm1 |-> MIN_VALUE, minus_dm1 |-> diff_m]
    ELSE IF RGt(diff_p, MIN_VALUE) /\ RGe(diff_p, diff_m)
         THEN [plus_dm1 |-> diff_p, minus_dm1 |-> MIN_VALUE]
         ELSE [plus_dm1 |-> MIN_VALUE, minus_dm1 |-> MIN_VALUE]

DirectionalMovement(diff_p, diff_m) ==
    IF RGt(diff_m, MIN_VALUE) /\ RLt(diff_p, diff_m)
    THEN [plus_dm1 |-> MIN_VALUE, minus_dm1 |-> diff_m]
    ELSE IF RGt(diff_p, MIN_VALUE) /\ RGt(diff_p, diff_m)
         THEN [plus_dm1 |-> diff_p, minus_dm1 |-> MIN_VALUE]
         ELSE [plus_dm1 |-> MIN_VALUE, minus_dm1 |-> MIN_VALUE]

\* sum = sum - sum / period + raw, on the three running sums.
WilderSums(self, plus_dm1, minus_dm1, tr) ==
    LET p == ToR(self.period)
    IN [self EXCEPT
          !.prev_plus_dm = RAdd(RSub(@, RDiv(@, p)), plus_dm1),
          !.prev_minus_dm = RAdd(RSub(@, RDiv(@, p)), minus_dm1),
          !.prev_tr = RAdd(RSub(@, RDiv(@, p)), tr)]

PlusDI(self) ==
    IF RGt(self.prev_tr, MIN_VALUE)
    THEN round_pos(self, RMul(MAX_VALUE, RDiv(self.prev_plus_dm, self.prev_tr)))
    ELSE MIN_VALUE

MinusDI(self) ==
    IF RGt(self.prev_tr, MIN_VALUE)
    THEN round_pos(self, RMul(MAX_VALUE, RDiv(self.prev_minus_dm, self.prev_tr)))
    ELSE MIN_VALUE

\* DX whose sentinel for a zero DI sum is MAX_VALUE.
DX_flat_is_max(self) ==
    LET plus_di == PlusDI(self)
        minus_di == MinusDI(self)
        di_diff == RAbs(RSub(plus_di, minus_di))
        di_sum == RAdd(plus_di, minus_di)
    IN IF RGt(di_sum, MIN_VALUE)
       THEN round_pos(self, RMul(MAX_VALUE, RDiv(di_diff, di_sum)))
       ELSE MAX_VALUE

\* DX without the absolute value of the DI difference.
DX_signed(self) ==
    LET plus_di == PlusDI(self)
        minus_di == MinusDI(self)
        di_diff == RSub(plus_di, minus_di)
        di_sum == RAdd(plus_di, minus_di)
    IN IF RGt(di_sum, MIN_VALUE)
       THEN round_pos(self, RMul(MAX_VALUE, RDiv(di_diff, di_sum)))
       ELSE MIN_VALUE

\* The DX derived from the running sums of self.
DX(self) ==
    LET plus_di == PlusDI(self)
        minus_di == MinusDI(self)
        di_diff == RAbs(RSub(plus_di, minus_di))
        di_sum == RAdd(plus_di, minus_di)
    IN IF RGt(di_sum, MIN_VALUE)
       THEN round_pos(self, RMul(MAX_VALUE, RDiv(di_diff, di_sum)))
       ELSE MIN_VALUE

SetPrev(self, high, low, close) ==
    [self EXCEPT !.prev_high = Some(high), !.prev_low = Some(low),
                 !.prev_close = Some(close)]

\* Accumulate that collects period raw values instead of period - 1.
Accumulate_one_more(self, plus_dm1, minus_dm1, tr) ==
    LET s1 == [self EXCEPT !.prev_plus_dm = RAdd(@, plus_dm1),
                           !.prev_minus_dm = RAdd(@, minus_dm1),
                           !.prev_tr = RAdd(@, tr),
                           !.dx_count = @ + 1]
    IN IF s1.dx_count = s1.period
       THEN [s1 EXCEPT !.is_initialized = TRUE, !.dx_count = 0]
       ELSE s1

\* Branch taken while !is_initialized: plain sums of the first raw values.
Accumulate(self, plus_dm1, minus_dm1, tr) ==
    LET s1 == [self EXCEPT !.prev_plus_dm = RAdd(@, plus_dm1),
                           !.prev_minus_dm = RAdd(@, minus_dm1),
                           !.prev_tr = RAdd(@, tr),
                           !.dx_count = @ + 1]
    IN IF s1.dx_count = s1.period - 1
       THEN [s1 EXCEPT !.is_initialized = TRUE, !.dx_count = 0]
       ELSE s1

\* Branch taken when dx_values is empty.
FirstSmoothing(self, plus_dm1, minus_dm1, tr) ==
    LET s1 == [self EXCEPT !.prev_plus_dm = RAdd(@, plus_dm1),
                           !.prev_minus_dm = RAdd(@, minus_dm1),
                           !.prev_tr = RAdd(@, tr)]
        s2 == [s1 EXCEPT !.dx_values = Append(@, DX(s1))]
    IN WilderSums(s2, plus_dm1, minus_dm1, tr)

\* Branch taken while 0 < dx_values.len() < period.
DxAccumulate(self, plus_dm1, minus_dm1, tr) ==
    LET s1 == WilderSums(self, plus_dm1, minus_dm1, tr)
        s2 == [s1 EXCEPT !.dx_values = Append(@, DX(s1))]
    IN IF Len(s2.dx_values) = s2.period
       THEN [s2 EXCEPT
               !.prev_adx = round_pos(s2, RDiv(RSumSeq(s2.dx_values), ToR(s2.period))),
               !.unstable_period_count = 0]
       ELSE s2

\* Steady that smooths with the previous ADX at full weight.
Steady_full_weight(self, plus_dm1, minus_dm1, tr) ==
    LET s1 == WilderSums(self, plus_dm1, minus_dm1, tr)
        dx == DX(s1)
        s2 == [s1 EXCEPT
                 !.prev_adx = round_pos(s1,
                     RDiv(RAdd(RMul(@, ToR(s1.period)), dx), ToR(s1.period)))]
    IN IF s2.unstable_period_count < s2.unstable_period
       THEN [s2 EXCEPT !.unstable_period_count = @ + 1]
       ELSE s2

\* Steady that keeps appending the tick's DX to the history.
Steady_pushes_dx(self, plus_dm1, minus_dm1, tr) ==
    LET s1 == WilderSums(self, plus_dm1, minus_dm1, tr)
        dx == DX(s1)
        s2 == [s1 EXCEPT
                 !.prev_adx = round_pos(s1,
                     RDiv(RAdd(RMul(@, RSub(ToR(s1.period), ToR(1))), dx),
                          ToR(s1.period))),
                 !.dx_values = Append(@, dx)]
    IN IF s2.unstable_period_count < s2.unstable_period
       THEN [s2 EXCEPT !.unstable_period_count = @ + 1]
       ELSE s2

\* Branch taken once dx_values.len() == period.
Steady(self, plus_dm1, minus_dm1, tr) ==
    LET s1 == WilderSums(self, plus_dm1, minus_dm1, tr)
        dx == DX(s1)
        s2 == [s1 EXCEPT
                 !.prev_adx = round_pos(s1,
                     RDiv(RAdd(RMul(@, RSub(ToR(s1.period), ToR(1))), dx),
                          ToR(s1.period)))]
    IN IF s2.unstable_period_count < s2.unstable_period
       THEN [s2 EXCEPT !.unstable_period_count = @ + 1]
       ELSE s2

\* A first call that already adds the bar's range to the true-range sum.
FirstCall_accumulates_tr(self, high, low, close) ==
    SetPrev([self EXCEPT !.prev_tr = RAdd(@, calculate_tr(self, high, low))],
            high, low, close)

\* Branch taken when prev_high is None: only the previous values are recorded.
FirstCall(self, high, low, close) == SetPrev(self, high, low, close)

\* A return that withholds the value while the unstable period lasts.
Returned_suppresses_unstable(self) ==
    IF Len(self.dx_values) < self.period
         \/ self.unstable_period_count < self.unstable_period
    THEN NaN
    ELSE self.prev_adx

\* A return that hands out prev_adx before the DX history is full.
Returned_without_warmup(self) == self.prev_adx

\* The value returned at the end of next.
Returned(self) ==
    IF Len(self.dx_values) < self.period THEN NaN ELSE self.prev_adx

\* next(&mut self, bar): the successor state, the returned value, and whether
\* the call panicked (unwrap of a None).
ADX_next(self, bar) ==
    LET high == bar[1]
        low == bar[2]
        close == bar[3]
    IN IF self.prev_high = None
       THEN [self |-> FirstCall(self, high, low, close), ret |-> MIN_VALUE, panic |-> FALSE]
       ELSE IF self.prev_low = None
       THEN [self |-> self, ret |-> NaN, panic |-> TRUE]
       ELSE
         LET prev_high == Unwrap(self.prev_high)
             prev_low == Unwrap(self.prev_low)
             diff_p == RSub(high, prev_high)
             diff_m == RSub(prev_low, low)
             dm == DirectionalMovement(diff_p, diff_m)
             tr == calculate_tr(self, high, low)
         IN IF ~self.is_initialized
            THEN [self |-> SetPrev(Accumulate(self, dm.plus_dm1, dm.minus_dm1, tr),
                                   high, low, close),
                  ret |-> MIN_VALUE, panic |-> FALSE]
            ELSE
              LET s1 == IF self.dx_values = <<>>
                        THEN FirstSmoothing(self, dm.plus_dm1, dm.minus_dm1, tr)
                        ELSE IF Len(self.dx_values) < self.period
                        THEN DxAccumulate(self, dm.plus_dm1, dm.minus_dm1, tr)
                        ELSE Steady(self, dm.plus_dm1, dm.minus_dm1, tr)
                  s2 == SetPrev(s1, high, low, close)
              IN [self |-> s2, ret |-> Returned(s2), panic |-> FALSE]

\* ADX_reset that leaves the last ADX value behind.
ADX_reset_keeps_prev_adx(self) ==
    [self EXCEPT !.prev_high = None,
                 !.prev_low = None,
                 !.prev_close = None,
                 !.prev_plus_dm = ToR(0),
                 !.prev_minus_dm = ToR(0),
                 !.prev_tr = ToR(0),
                 !.dx_values = <<>>,
                 !.dx_count = 0,
                 !.is_initialized = FALSE,
                 !.unstable_period_count = 0]

\* ADX_reset that forgets the accumulation counter.
ADX_reset_keeps_dx_count(self) ==
    [self EXCEPT !.prev_high = None,
                 !.prev_low = None,
                 !.prev_close = None,
                 !.prev_plus_dm = ToR(0),
                 !.prev_minus_dm = ToR(0),
                 !.prev_tr = ToR(0),
                 !.prev_adx = ToR(0),
                 !.dx_values = <<>>,
                 !.is_initialized = FALSE,
                 !.unstable_period_count = 0]

\* ADX_reset that also puts the rounding mode back to its default.
ADX_reset_clears_rounding(self) ==
    [self EXCEPT !.prev_high = None,
                 !.prev_low = None,
                 !.prev_close = None,
                 !.prev_plus_dm = ToR(0),
                 !.prev_minus_dm = ToR(0),
                 !.prev_tr = ToR(0),
                 !.prev_adx = ToR(0),
                 !.dx_values = <<>>,
                 !.dx_count = 0,
                 !.is_initialized = FALSE,
                 !.unstable_period_count = 0,
                 !.round_pos = DEFAULT_ROUND_POS]

ADX_reset(self) ==
    [self EXCEPT !.prev_high = None,
                 !.prev_low = None,
                 !.prev_close = None,
                 !.prev_plus_dm = ToR(0),
                 !.prev_minus_dm = ToR(0),
                 !.prev_tr = ToR(0),
                 !.prev_adx = ToR(0),
                 !.dx_values = <<>>,
                 !.dx_count = 0,
                 !.is_initialized = FALSE,
                 !.unstable_period_count = 0]

\* The bars fed to ADX: (high, low, close).  Between them they give rising
\* and falling highs and lows, a flat bar, equal plus and minus deltas, and
\* a bar with high < low.
Bars ==
    { <<ToR(3), ToR(2), ToR(2)>>,
      <<ToR(2), ToR(1), ToR(2)>>,
      <<ToR(2), ToR(2), ToR(2)>>,
      <<ToR(1), ToR(2), ToR(1)>> }

\* ------------------------------------------------------------------------
\* Relative Strength Index
\* ------------------------------------------------------------------------
NoRSI ==
    [period |-> 0, prev_val |-> ToR(0), is_new |-> TRUE, price_changes |-> <<>>,
     avg_gain |-> ToR(0), avg_loss |-> ToR(0)]

RSI_new(period) ==
    IF period = 0
    THEN [ok |-> FALSE, self |-> NoRSI]
    ELSE [ok |-> TRUE,
          self |-> [period |-> period,
                    prev_val |-> ToR(0),
                    is_new |-> TRUE,
                    price_changes |-> <<>>,
                    avg_gain |-> ToR(0),
                    avg_loss |-> ToR(0)]]

\* while price_changes.len() > period { price_changes.pop_front(); }
\* period(&self) -> usize
RSI_period(self) == self.period

\* Eviction that drops the newest pair instead of the oldest.
PopFrontWhile_drops_newest(q, period) ==
    IF Len(q) > period THEN SubSeq(q, 1, period) ELSE q

RECURSIVE PopFrontWhile(_, _)
PopFrontWhile(q, period) ==
    IF Len(q) > period THEN PopFrontWhile(Tail(q), period) ELSE q

RECURSIVE SumGains(_)
SumGains(q) == IF q = <<>> THEN ToR(0) ELSE RAdd(SumGains(SubSeq(q, 1, Len(q) - 1)), q[Len(q)][1])

RECURSIVE SumLosses(_)
SumLosses(q) == IF q = <<>> THEN ToR(0) ELSE RAdd(SumLosses(SubSeq(q, 1, Len(q) - 1)), q[Len(q)][2])

\* Simple average over the whole queue.
SeedAverages(self) ==
    [self EXCEPT !.avg_gain = RDiv(SumGains(self.price_changes), ToR(self.period)),
                 !.avg_loss = RDiv(SumLosses(self.price_changes), ToR(self.period))]

\* Wilder's smoothing weighting the previous average by period, not period - 1.
WilderAverages_full_weight(self, gain, loss) ==
    LET p == ToR(self.period)
    IN [self EXCEPT !.avg_gain = RDiv(RAdd(RMul(@, p), gain), p),
                    !.avg_loss = RDiv(RAdd(RMul(@, p), loss), p)]

\* Wilder's smoothing with the newest gain and loss.
WilderAverages(self, gain, loss) ==
    LET p == ToR(self.period)
    IN [self EXCEPT !.avg_gain = RDiv(RAdd(RMul(@, RSub(p, ToR(1))), gain), p),
                    !.avg_loss = RDiv(RAdd(RMul(@, RSub(p, ToR(1))), loss), p)]

\* RSI value with the sign of the quotient term flipped.
RsiValue_plus(self) ==
    IF self.avg_loss = ToR(0)
    THEN IF self.avg_gain = ToR(0) THEN ToR(50) ELSE ToR(100)
    ELSE LET rs == RDiv(self.avg_gain, self.avg_loss)
         IN RAdd(ToR(100), RDiv(ToR(100), RAdd(ToR(1), rs)))

\* RSI value without the no-movement case: a zero average loss always gives 100.
RsiValue_no_flat_case(self) ==
    IF self.avg_loss = ToR(0)
    THEN ToR(100)
    ELSE LET rs == RDiv(self.avg_gain, self.avg_loss)
         IN RSub(ToR(100), RDiv(ToR(100), RAdd(ToR(1), rs)))

\* The value returned from the two averages.
RsiValue(self) ==
    IF self.avg_loss = ToR(0)
    THEN IF self.avg_gain = ToR(0) THEN ToR(50) ELSE ToR(100)
    ELSE LET rs == RDiv(self.avg_gain, self.avg_loss)
         IN RSub(ToR(100), RDiv(ToR(100), RAdd(ToR(1), rs)))

\* Warm-up test off by one.
WarmingUp_le(self) == Len(self.price_changes) <= self.period

\* if self.price_changes.len() < self.period { return NAN; }
WarmingUp(self) == Len(self.price_changes) < self.period

\* if price_changes.len() == period && avg_gain == 0.0 && avg_loss == 0.0
SeedCondition(self) ==
    /\ Len(self.price_changes) = self.period
    /\ self.avg_gain = ToR(0)
    /\ self.avg_loss = ToR(0)

\* next(&mut self, input: f64): the successor state and the returned value.
RSI_next(self, input) ==
    IF self.is_new
    THEN [self |-> [self EXCEPT !.is_new = FALSE, !.prev_val = input], ret |-> NaN]
    ELSE
      LET change == RSub(input, self.prev_val)
          gain == IF RGe(change, ToR(0)) THEN change ELSE ToR(0)
          loss == IF RGe(change, ToR(0)) THEN ToR(0) ELSE RNeg(change)
          s1 == [self EXCEPT !.prev_val = input,
                             !.price_changes = Append(@, <<gain, loss>>)]
      IN IF WarmingUp(s1)
         THEN [self |-> s1, ret |-> NaN]
         ELSE
           LET s2 == [s1 EXCEPT !.price_changes = PopFrontWhile(@, s1.period)]
               s3 == IF SeedCondition(s2)
                     THEN SeedAverages(s2)
                     ELSE WilderAverages(s2, gain, loss)
           IN [self |-> s3, ret |-> RsiValue(s3)]

\* RSI_reset that forgets the two averages.
RSI_reset_keeps_averages(self) ==
    [self EXCEPT !.is_new = TRUE,
                 !.prev_val = ToR(0),
                 !.price_changes = <<>>]

RSI_reset(self) ==
    [self EXCEPT !.is_new = TRUE,
                 !.prev_val = ToR(0),
                 !.price_changes = <<>>,
                 !.avg_gain = ToR(0),
                 !.avg_loss = ToR(0)]

RsiInputs == { ToR(k) : k \in 0..MaxInputRSI }

\* ------------------------------------------------------------------------
\* Correlation
\* ------------------------------------------------------------------------
\* Box<[f64]> buffers are sequences; slot i of the code is element i + 1.
NoCORREL ==
    [period |-> 0, index |-> 0, count |-> 0, sum_x |-> ToR(0), sum_y |-> ToR(0),
     sum_xy |-> ToR(0), sum_x2 |-> ToR(0), sum_y2 |-> ToR(0),
     values_x |-> <<>>, values_y |-> <<>>]

\* CORREL_new that counts a point before any was fed.
CORREL_new_count_one(period) ==
    IF period = 0
    THEN [ok |-> FALSE, self |-> NoCORREL]
    ELSE [ok |-> TRUE,
          self |-> [period |-> period,
                    index |-> 0,
                    count |-> 1,
                    sum_x |-> ToR(0),
                    sum_y |-> ToR(0),
                    sum_xy |-> ToR(0),
                    sum_x2 |-> ToR(0),
                    sum_y2 |-> ToR(0),
                    values_x |-> [i \in 1..period |-> ToR(0)],
                    values_y |-> [i \in 1..period |-> ToR(0)]]]

CORREL_new(period) ==
    IF period = 0
    THEN [ok |-> FALSE, self |-> NoCORREL]
    ELSE [ok |-> TRUE,
          self |-> [period |-> period,
                    index |-> 0,
                    count |-> 0,
                    sum_x |-> ToR(0),
                    sum_y |-> ToR(0),
                    sum_xy |-> ToR(0),
                    sum_x2 |-> ToR(0),
                    sum_y2 |-> ToR(0),
                    values_x |-> [i \in 1..period |-> ToR(0)],
                    values_y |-> [i \in 1..period |-> ToR(0)]]]

\* period(&self) -> usize
CORREL_period(self) == self.period

\* numerator / denominator.sqrt() is irrational in general; the returned
\* value r is represented by the exact r * |r| = numerator * |numerator| /
\* denominator, which is rational, has the sign of r and orders returned
\* values as r does (0, 1, -1 are fixed).  The square root and the quotient
\* each round once, to nearest: a returned value is 0, or is beyond 1 or -1,
\* only if this exact value is.
SignedSqrtQuotient(numerator, denominator) ==
    RDiv(RMul(numerator, RAbs(numerator)), denominator)

\* The coefficient computed from the sums once count >= 2.
Coefficient(self) ==
    LET n == ToR(self.count)
        numerator == FSub(self.sum_xy, FDiv(FMul(self.sum_x, self.sum_y), n))
        denominator_x == FSub(self.sum_x2, FDiv(FMul(self.sum_x, self.sum_x), n))
        denominator_y == FSub(self.sum_y2, FDiv(FMul(self.sum_y, self.sum_y), n))
        denominator == FMul(denominator_x, denominator_y)
    IN IF RLe(denominator, ToR(0))
       THEN ToR(0)
       ELSE SignedSqrtQuotient(numerator, denominator)

\* self.index = if self.index + 1 < self.period { self.index + 1 } else { 0 }
AdvanceIndex(self) ==
    [self EXCEPT !.index = IF @ + 1 < self.period THEN @ + 1 ELSE 0]

\* The window is not full yet: count the point and add it to the sums.
AddToSums(self, input_x, input_y) ==
    [self EXCEPT !.count = @ + 1,
                 !.sum_x = FAdd(@, input_x),
                 !.sum_y = FAdd(@, input_y),
                 !.sum_xy = FAdd(@, FMul(input_x, input_y)),
                 !.sum_x2 = FAdd(@, FMul(input_x, input_x)),
                 !.sum_y2 = FAdd(@, FMul(input_y, input_y))]

\* ReplaceInSums that forgets to take the trailing product out of sum_xy.
ReplaceInSums_keeps_trailing_xy(self, trailing_x, trailing_y, input_x, input_y) ==
    [self EXCEPT !.sum_x = FAdd(FSub(@, trailing_x), input_x),
                 !.sum_y = FAdd(FSub(@, trailing_y), input_y),
                 !.sum_xy = FAdd(@, FMul(input_x, input_y)),
                 !.sum_x2 = FAdd(FSub(@, FMul(trailing_x, trailing_x)),
                                 FMul(input_x, input_x)),
                 !.sum_y2 = FAdd(FSub(@, FMul(trailing_y, trailing_y)),
                                 FMul(input_y, input_y))]

\* The window is full: take the trailing point out of the sums and add the
\* new one.
ReplaceInSums(self, trailing_x, trailing_y, input_x, input_y) ==
    [self EXCEPT !.sum_x = FAdd(FSub(@, trailing_x), input_x),
                 !.sum_y = FAdd(FSub(@, trailing_y), input_y),
                 !.sum_xy = FAdd(FSub(@, FMul(trailing_x, trailing_y)),
                                 FMul(input_x, input_y)),
                 !.sum_x2 = FAdd(FSub(@, FMul(trailing_x, trailing_x)),
                                 FMul(input_x, input_x)),
                 !.sum_y2 = FAdd(FSub(@, FMul(trailing_y, trailing_y)),
                                 FMul(input_y, input_y))]

\* next(&mut self, input: (f64, f64)): the successor state, the returned
\* value, and whether the call panicked (slice index out of bounds).
CORREL_next(self, input) ==
    LET input_x == input[1]
        input_y == input[2]
    IN IF self.index >= Len(self.values_x) \/ self.index >= Len(self.values_y)
       THEN [self |-> self, ret |-> NaN, panic |-> TRUE]
       ELSE
         LET trailing_x == self.values_x[self.index + 1]
             trailing_y == self.values_y[self.index + 1]
             s1 == [self EXCEPT !.values_x[self.index + 1] = input_x,
                                !.values_y[self.index + 1] = input_y]
             s2 == AdvanceIndex(s1)
             s3 == IF s2.count < s2.period
                   THEN AddToSums(s2, input_x, input_y)
                   ELSE ReplaceInSums(s2, trailing_x, trailing_y, input_x, input_y)
         IN [self |-> s3,
             ret |-> IF s3.count < 2 THEN ToR(0) ELSE Coefficient(s3),
             panic |-> FALSE]

\* for i in 0..self.period { values_x[i] = 0.0; values_y[i] = 0.0; }
ZeroFill(values, period) ==
    [i \in DOMAIN values |-> IF i <= period THEN ToR(0) ELSE values[i]]

\* CORREL_reset that zeroes the sums but leaves the buffers as they are.
CORREL_reset_keeps_buffers(self) ==
    [self EXCEPT !.index = 0,
                 !.count = 0,
                 !.sum_x = ToR(0),
                 !.sum_y = ToR(0),
                 !.sum_xy = ToR(0),
                 !.sum_x2 = ToR(0),
                 !.sum_y2 = ToR(0)]

CORREL_reset(self) ==
    [self EXCEPT !.index = 0,
                 !.count = 0,
                 !.sum_x = ToR(0),
                 !.sum_y = ToR(0),
                 !.sum_xy = ToR(0),
                 !.sum_x2 = ToR(0),
                 !.sum_y2 = ToR(0),
                 !.values_x = ZeroFill(@, self.period),
                 !.values_y = ZeroFill(@, self.period)]

CorrelInputs == { <<ToR(x), ToR(y)>> : x \in 0..MaxInputCORREL, y \in 0..MaxInputCORREL }

\* ------------------------------------------------------------------------
\* The caller: one instance, constructed once, then fed and reset
\* ------------------------------------------------------------------------
Constructed(e, period, rounding) ==
    IF e = "ADX"
    THEN LET r == ADX_new(period)
         IN IF r.ok /\ rounding THEN [ok |-> TRUE, self |-> with_rounding(r.self)] ELSE r
    ELSE IF e = "RSI" THEN RSI_new(period) ELSE CORREL_new(period)

InitWith(e, period, rounding) ==
    LET r == Constructed(e, period, rounding)
    IN /\ engine = e
       /\ arg = period
       /\ rnd = rounding
       /\ live = r.ok
       /\ adx = IF e = "ADX" THEN r.self ELSE NoADX
       /\ rsi = IF e = "RSI" THEN r.self ELSE NoRSI
       /\ corr = IF e = "CORREL" THEN r.self ELSE NoCORREL
       /\ op = "new"
       /\ status = IF r.ok THEN "Ok" ELSE "InvalidParameter"
       /\ out = ToR(0)
       /\ hist = <<>>
       /\ fed = 0

InitADX == \E period \in 0..MaxPeriodADX, rounding \in BOOLEAN : InitWith("ADX", period, rounding)
InitRSI == \E period \in 0..MaxPeriodRSI : InitWith("RSI", period, FALSE)
InitCORREL == \E period \in 0..MaxPeriodCORREL : InitWith("CORREL", period, FALSE)

Usable == live /\ status # "Panic"

AdxNext(bar) ==
    /\ engine = "ADX" /\ Usable
    /\ Len(hist) < MaxTicksADX
    /\ LET r == ADX_next(adx, bar)
       IN /\ adx' = r.self
          /\ out' = r.ret
          /\ status' = IF r.panic THEN "Panic" ELSE "F64"
    /\ op' = "next"
    /\ hist' = Append(hist, bar)
    /\ fed' = 0
    /\ UNCHANGED <<engine, arg, rnd, live, rsi, corr>>

AdxReset ==
    /\ engine = "ADX" /\ Usable
    /\ adx' = ADX_reset(adx)
    /\ op' = "reset"
    /\ status' = "Unit"
    /\ out' = ToR(0)
    /\ hist' = <<>>
    /\ fed' = Len(hist)
    /\ UNCHANGED <<engine, arg, rnd, live, rsi, corr>>

RsiNext(input) ==
    /\ engine = "RSI" /\ Usable
    /\ Len(hist) < MaxTicksRSI
    /\ LET r == RSI_next(rsi, input)
       IN /\ rsi' = r.self
          /\ out' = r.ret
    /\ status' = "F64"
    /\ op' = "next"
    /\ hist' = Append(hist, input)
    /\ fed' = 0
    /\ UNCHANGED <<engine, arg, rnd, live, adx, corr>>

RsiReset ==
    /\ engine = "RSI" /\ Usable
    /\ rsi' = RSI_reset(rsi)
    /\ op' = "reset"
    /\ status' = "Unit"
    /\ out' = ToR(0)
    /\ hist' = <<>>
    /\ fed' = Len(hist)
    /\ UNCHANGED <<engine, arg, rnd, live, adx, corr>>

CorrelNext(input) ==
    /\ engine = "CORREL" /\ Usable
    /\ Len(hist) < MaxTicksCORREL
    /\ LET r == CORREL_next(corr, input)
       IN /\ corr' = r.self
          /\ out' = r.ret
          /\ status' = IF r.panic THEN "Panic" ELSE "F64"
    /\ op' = "next"
    /\ hist' = Append(hist, input)
    /\ fed' = 0
    /\ UNCHANGED <<engine, arg, rnd, live, adx, rsi>>

CorrelReset ==
    /\ engine = "CORREL" /\ Usable
    /\ corr' = CORREL_reset(corr)
    /\ op' = "reset"
    /\ status' = "Unit"
    /\ out' = ToR(0)
    /\ hist' = <<>>
    /\ fed' = Len(hist)
    /\ UNCHANGED <<engine, arg, rnd, live, adx, rsi>>

\* period() reads the instance and returns a usize.
PeriodCall(e, period) ==
    /\ engine = e /\ Usable
    /\ Len(hist) <= MaxTicksPeriod
    /\ op' = "period"
    /\ status' = "Usize"
    /\ out' = ToR(period)
    /\ UNCHANGED <<engine, arg, rnd, live, adx, rsi, corr, hist, fed>>

AdxPeriod == PeriodCall("ADX", ADX_period(adx))
RsiPeriod == PeriodCall("RSI", RSI_period(rsi))
CorrelPeriod == PeriodCall("CORREL", CORREL_period(corr))

NextADX == (\E bar \in Bars : AdxNext(bar)) \/ AdxReset
NextRSI == (\E input \in RsiInputs : RsiNext(input)) \/ RsiReset
NextCORREL == (\E input \in CorrelInputs : CorrelNext(input)) \/ CorrelReset

SpecADX == InitADX /\ [][NextADX]_vars
SpecRSI == InitRSI /\ [][NextRSI]_vars
SpecCORREL == InitCORREL /\ [][NextCORREL]_vars

Init == InitADX \/ InitRSI \/ InitCORREL
Next == NextADX \/ NextRSI \/ NextCORREL
Spec == Init /\ [][Next]_vars

\* Long runs of ADX with the smallest period new accepts (the warm-up is
\* shortest, and the sums' denominators, powers of the period, stay within
\* the integers): the first MaxVariedTicks bars are any of Bars, every later
\* bar repeats the one before it.
InitLongRun == \E rounding \in BOOLEAN : InitWith("ADX", 2, rounding)
LongRunBars == IF Len(hist) < MaxVariedTicks THEN Bars ELSE {hist[Len(hist)]}

AdxNextLong(bar) ==
    /\ engine = "ADX" /\ Usable
    /\ Len(hist) < MaxTicksLong
    /\ LET r == ADX_next(adx, bar)
       IN /\ adx' = r.self
          /\ out' = r.ret
          /\ status' = IF r.panic THEN "Panic" ELSE "F64"
    /\ op' = "next"
    /\ hist' = Append(hist, bar)
    /\ fed' = 0
    /\ UNCHANGED <<engine, arg, rnd, live, rsi, corr>>

NextLongRun == (\E bar \in LongRunBars : AdxNextLong(bar)) \/ AdxReset
SpecLongRun == InitLongRun /\ [][NextLongRun]_vars

\* The two indicators that keep Wilder averages.
InitAverages == InitADX \/ InitRSI
NextAverages == NextADX \/ NextRSI
SpecAverages == InitAverages /\ [][NextAverages]_vars

\* The three indicators with period() among the operations.
NextConfig == Next \/ AdxPeriod \/ RsiPeriod \/ CorrelPeriod
SpecConfig == Init /\ [][NextConfig]_vars

\* ------------------------------------------------------------------------
\* Properties
\* ------------------------------------------------------------------------
\* The instance a successful construction with the caller's arguments yields.
Fresh == Constructed(engine, arg, rnd).self

\* C1: right after reset(), whatever next calls came before it, every field
\* of the ADX instance equals that of an instance freshly constructed with
\* the same period and rounding mode (so every continuation coincides).
C1_AdxResetIsFresh ==
    (engine = "ADX" /\ op = "reset") => adx = Fresh

\* A rounding ADX of period 2 reset from its steady state.
C1_Witness ==
    engine = "ADX" /\ op = "reset" /\ rnd /\ arg = 2 /\ fed >= 2 * arg + 1

\* C2: right after reset(), in warm-up, at the seed tick or in steady state,
\* is_new, prev_val, the gain/loss queue and both averages of the RSI
\* instance equal those of a freshly constructed instance of the same period.
C2_RsiResetIsFresh ==
    (engine = "RSI" /\ op = "reset") => rsi = Fresh

\* An RSI of period 2 reset after Wilder smoothing has begun.
C2_Witness ==
    engine = "RSI" /\ op = "reset" /\ arg = 2 /\ fed >= arg + 2

\* C3: right after reset(), also when the circular buffer had wrapped, index,
\* count, the five sums and every slot of both buffers of the Correlation
\* instance equal those of a freshly constructed instance of the same period.
C3_CorrelResetIsFresh ==
    (engine = "CORREL" /\ op = "reset") => corr = Fresh

\* A Correlation of period 2 reset after its buffer had wrapped.
C3_Witness ==
    engine = "CORREL" /\ op = "reset" /\ arg = 2 /\ fed > arg

\* C4: new fails with InvalidParameter exactly for period 0 (Correlation,
\* RSI) and for periods 0 and 1 (ADX) and succeeds otherwise; no next or
\* reset ends in an error: InvalidParameter is only ever the outcome of new,
\* and no call panics.
C4_OnlyConstructionFails ==
    /\ live <=> ~(arg = 0 \/ (engine = "ADX" /\ arg = 1))
    /\ (status = "InvalidParameter") <=> (op = "new" /\ ~live)
    /\ status # "Panic"
    /\ op \in {"next", "reset"} => status \in {"F64", "Unit"}

\* new(1) has failed for ADX.
C4_Witness ==
    engine = "ADX" /\ arg = 1 /\ op = "new" /\ status = "InvalidParameter"

\* x is a real number in [0, 100].
InRange0to100(x) == ~IsNaN(x) /\ RLe(ToR(0), x) /\ RLe(x, ToR(100))

\* C5 as stated: ADX.next returns NaN on every tick after which the DX
\* history holds fewer than period values.
C5_NaNWheneverHistoryShort ==
    (engine = "ADX" /\ op = "next" /\ Len(adx.dx_values) < adx.period)
        => IsNaN(out)

\* C5 as amended: ADX.next returns NaN on every tick after which the DX
\* history is non-empty but holds fewer than period values; while the DX
\* history is still empty after the call (the first period calls: the first
\* call and the period - 1 accumulating ticks) it returns 0.0.
C5_NaNWhileHistoryFilling ==
    (engine = "ADX" /\ op = "next" /\ Len(adx.dx_values) < adx.period)
        => /\ (adx.dx_values = <<>>) <=> (Len(hist) <= adx.period)
           /\ IF adx.dx_values = <<>> THEN out = ToR(0) ELSE IsNaN(out)

\* A period-3 ADX whose DX history holds two values: NaN was returned.
C5_Witness ==
    engine = "ADX" /\ op = "next" /\ arg = 3 /\ Len(adx.dx_values) = 2

\* C6: for every period >= 2, either rounding mode and every bar sequence,
\* from the tick at which the DX history reaches period entries onward each
\* value returned by next is a real number in [0, 100], and every DX value
\* in the history is in [0, 100].
C6_AdxOutputRange ==
    (engine = "ADX" /\ live)
        => /\ \A i \in 1..Len(adx.dx_values) : InRange0to100(adx.dx_values[i])
           /\ (op = "next" /\ Len(adx.dx_values) = adx.period) => InRange0to100(out)

\* A steady tick has returned a value strictly inside the range.
C6_Witness ==
    /\ engine = "ADX" /\ op = "next" /\ Len(hist) > 2 * arg
    /\ ~IsNaN(out) /\ RLt(ToR(0), out) /\ RLt(out, ToR(100))

\* C7: the first next call on a freshly constructed or freshly reset ADX
\* returns 0.0 and only records the bar's high, low and close as the previous
\* values: the sums, prev_adx, the DX history, dx_count, is_initialized and
\* the unstable counter are as construction left them.
C7_AdxFirstCall ==
    (engine = "ADX" /\ op = "next" /\ Len(hist) = 1)
        => /\ out = ToR(0)
           /\ adx = [Fresh EXCEPT !.prev_high = Some(hist[1][1]),
                                  !.prev_low = Some(hist[1][2]),
                                  !.prev_close = Some(hist[1][3])]

\* The first call was made with a bar whose range is not zero.
C7_Witness ==
    engine = "ADX" /\ op = "next" /\ Len(hist) = 1 /\ hist[1][1] # hist[1][2]

\* C8: for every period p >= 1, counting next calls from construction or
\* from the last reset, calls 1 to p return NaN and call p + 1 and every
\* later call return a value that is not NaN.
C8_RsiWarmUpLength ==
    (engine = "RSI" /\ op = "next") => (IsNaN(out) <=> Len(hist) <= arg)

\* Call p + 1 of a period-3 RSI has returned a number.
C8_Witness ==
    engine = "RSI" /\ op = "next" /\ arg = 3 /\ Len(hist) = arg + 1 /\ ~IsNaN(out)

\* C9: for every period >= 1 and every input sequence, every value returned
\* by next once out of warm-up lies in [0, 100].
C9_RsiOutputRange ==
    (engine = "RSI" /\ op = "next" /\ Len(hist) > arg) => InRange0to100(out)

\* A value strictly between 0 and 100 other than 50 was returned.
C9_Witness ==
    /\ engine = "RSI" /\ op = "next" /\ Len(hist) > arg
    /\ RLt(ToR(0), out) /\ RLt(out, ToR(100)) /\ out # ToR(50)

\* Gain and loss of the i-th price change of a sequence of inputs.
RefGain(h, i) ==
    IF RGe(RSub(h[i + 1], h[i]), ToR(0)) THEN RSub(h[i + 1], h[i]) ELSE ToR(0)
RefLoss(h, i) ==
    IF RGe(RSub(h[i + 1], h[i]), ToR(0)) THEN ToR(0) ELSE RSub(h[i], h[i + 1])

RECURSIVE RefSumGain(_, _)
RefSumGain(h, k) == IF k = 0 THEN ToR(0) ELSE RAdd(RefSumGain(h, k - 1), RefGain(h, k))
RECURSIVE RefSumLoss(_, _)
RefSumLoss(h, k) == IF k = 0 THEN ToR(0) ELSE RAdd(RefSumLoss(h, k - 1), RefLoss(h, k))

\* The reference averages after call n >= p + 1: the arithmetic mean of the
\* first p gains (losses) at n = p + 1, then
\* (previous average * (p - 1) + newest gain (loss)) / p.
RECURSIVE RefAvgGain(_, _, _)
RefAvgGain(h, p, n) ==
    IF n = p + 1
    THEN RDiv(RefSumGain(h, p), ToR(p))
    ELSE RDiv(RAdd(RMul(RefAvgGain(h, p, n - 1), ToR(p - 1)), RefGain(h, n - 1)), ToR(p))
RECURSIVE RefAvgLoss(_, _, _)
RefAvgLoss(h, p, n) ==
    IF n = p + 1
    THEN RDiv(RefSumLoss(h, p), ToR(p))
    ELSE RDiv(RAdd(RMul(RefAvgLoss(h, p, n - 1), ToR(p - 1)), RefLoss(h, n - 1)), ToR(p))

\* C10: for every input sequence the RSI averages follow the reference
\* recurrence: after call p + 1 they are the arithmetic means of the first p
\* gains and losses, and after each later call they are (previous average *
\* (p - 1) + newest gain or loss) / p, also on later ticks that find both
\* averages exactly zero and take the simple-average branch again.
C10_RsiAveragesFollowRecurrence ==
    (engine = "RSI" /\ live /\ Len(hist) >= arg + 1)
        => /\ rsi.avg_gain = RefAvgGain(hist, arg, Len(hist))
           /\ rsi.avg_loss = RefAvgLoss(hist, arg, Len(hist))

\* A period-2 RSI fed three equal values (both averages seeded to zero) and
\* then a different one: the simple-average branch was taken a second time.
C10_Witness ==
    /\ engine = "RSI" /\ op = "next" /\ arg = 2 /\ Len(hist) = 4
    /\ hist[1] = hist[2] /\ hist[2] = hist[3] /\ hist[4] # hist[3]

\* C11: on every tick out of warm-up next returns 50 when the average loss
\* and the average gain are both 0, 100 when the average loss is 0 and the
\* average gain is not, and otherwise 100 - 100 / (1 + avgGain / avgLoss),
\* with the averages of the reference recurrence; the divisors avgLoss and
\* 1 + avgGain / avgLoss are then not zero and the result is not NaN.
C11_RsiOutputRule ==
    (engine = "RSI" /\ op = "next" /\ Len(hist) > arg)
        => LET g == RefAvgGain(hist, arg, Len(hist))
               l == RefAvgLoss(hist, arg, Len(hist))
           IN /\ ~IsNaN(out)
              /\ (l = ToR(0) /\ g = ToR(0)) => out = ToR(50)
              /\ (l = ToR(0) /\ g # ToR(0)) => out = ToR(100)
              /\ l # ToR(0) =>
                    /\ RAdd(ToR(1), RDiv(g, l)) # ToR(0)
                    /\ out = RSub(ToR(100), RDiv(ToR(100), RAdd(ToR(1), RDiv(g, l))))

\* Only gains were seen: the average loss is 0, the average gain is not, and
\* 100 was returned.
C11_Witness ==
    /\ engine = "RSI" /\ op = "next" /\ Len(hist) > arg
    /\ rsi.avg_loss = ToR(0) /\ rsi.avg_gain # ToR(0) /\ out = ToR(100)

\* The min(n, period) most recent pairs of a history h.
RecentPairs(h, period) ==
    LET n == Len(h)
        k == IF n < period THEN n ELSE period
    IN SubSeq(h, n - k + 1, n)

\* The buffer slot (0-based) that the k-th pair of a history was written to.
SlotOf(k, period) == (k - 1) % period

\* What slot j (0-based) holds after the pairs of h: coordinate c of the most
\* recent pair written to it, or zero when none was.
SlotContent(h, period, j, c) ==
    LET ks == { k \in 1..Len(h) : SlotOf(k, period) = j }
    IN IF ks = {} THEN ToR(0)
       ELSE h[CHOOSE k \in ks : \A m \in ks : m <= k][c]

C13_CorrelZeroBelowTwoPoints ==
    (engine = "CORREL" /\ op = "next" /\ (Len(hist) = 1 \/ arg = 1))
        => /\ status = "F64"
           /\ out = ToR(0)

\* A later call on a period-1 instance, fed a pair that differs from the
\* one before it.
C13_Witness ==
    /\ engine = "CORREL" /\ op = "next" /\ arg = 1
    /\ Len(hist) >= 2 /\ hist[Len(hist)] # hist[Len(hist) - 1]
    /\ hist[Len(hist)][1] # ToR(0) /\ hist[Len(hist)][2] # ToR(0)
    /\ out = ToR(0)

\* All values of coordinate c in a sequence of pairs are equal.
AllEqual(w, c) == \A i, j \in 1..Len(w) : w[i][c] = w[j][c]

\* C14: whenever all x values in the current window are equal or all y
\* values in the current window are equal (in particular when the same pair
\* was fed for a full window), next returns 0.0, and it never returns NaN or
\* fails.
C14_ZeroVarianceGuard ==
    (engine = "CORREL" /\ op = "next")
        => /\ status = "F64"
           /\ ~IsNaN(out)
           /\ LET w == RecentPairs(hist, arg)
              IN (AllEqual(w, 1) \/ AllEqual(w, 2)) => out = ToR(0)

\* C15: every value returned by next lies between -1 and 1.
C15_CorrelRange ==
    (engine = "CORREL" /\ op = "next")
        => /\ ~IsNaN(out)
           /\ RLe(ToR(-1), out) /\ RLe(out, ToR(1))

\* The configuration of the instance is what the caller constructed it with.
ConfigurationKept ==
    live =>
        /\ engine = "ADX" => /\ adx.period = arg
                             /\ adx.round_pos = rnd
                             /\ adx.unstable_period = 15
        /\ engine = "RSI" => rsi.period = arg
        /\ engine = "CORREL" => corr.period = arg

\* C16: for all three engines, in every reachable state the period is the
\* one given to new (and, for ADX, the rounding mode is the one chosen at
\* construction and the unstable-period limit is 15), whatever next and
\* reset calls came before; period() returns that period and changes no
\* field of the instance.
C16_ConfigurationImmutable ==
    /\ [](ConfigurationKept /\ (op = "period" => status = "Usize" /\ out = ToR(arg)))
    /\ [][op' = "period" => (adx' = adx /\ rsi' = rsi /\ corr' = corr)]_vars

\* period() is called on an ADX instance with rounding, right after a reset
\* that followed next calls, and returns the period given to new.
C16_Witness ==
    /\ engine = "ADX" /\ rnd /\ op = "period" /\ out = ToR(arg)
    /\ fed >= 2 /\ adx.round_pos

\* C17: counting the next calls since construction or the last reset, calls
\* 1 to period return 0.0, calls period+1 to 2*period-1 return NaN, and call
\* 2*period is the first that returns the seeded ADX; is_initialized is true
\* exactly from call period on and the DX history is non-empty exactly from
\* call period+1 on.
C17_AdxWarmUpSchedule ==
    (engine = "ADX" /\ live) =>
        LET n == Len(hist)
            p == arg
        IN /\ op = "next" =>
                /\ n <= p => out = ToR(0)
                /\ (p < n /\ n < 2 * p) => IsNaN(out)
                /\ n >= 2 * p => ~IsNaN(out)
                /\ n = 2 * p => /\ out = adx.prev_adx
                                /\ Len(adx.dx_values) = p
                                /\ adx.unstable_period_count = 0
           /\ adx.is_initialized <=> n >= p
           /\ adx.dx_values # <<>> <=> n >= p + 1

\* Call 2*period of a period-3 instance has just returned a non-zero seeded
\* ADX.
C17_Witness ==
    /\ engine = "ADX" /\ op = "next" /\ arg = 3
    /\ Len(hist) = 6 /\ ~IsNaN(out) /\ out # ToR(0)

\* The raw values of the k-th bar (k >= 2) of a history h of bars
\* <<high, low, close>>, by the directional-movement rule and the true range.
RefDiffP(h, k) == RSub(h[k][1], h[k - 1][1])
RefDiffM(h, k) == RSub(h[k - 1][2], h[k][2])
RefPlusDM(h, k) ==
    IF RGt(RefDiffM(h, k), ToR(0)) /\ RLt(RefDiffP(h, k), RefDiffM(h, k))
    THEN ToR(0)
    ELSE IF RGt(RefDiffP(h, k), ToR(0)) /\ RGt(RefDiffP(h, k), RefDiffM(h, k))
         THEN RefDiffP(h, k)
         ELSE ToR(0)
RefMinusDM(h, k) ==
    IF RGt(RefDiffM(h, k), ToR(0)) /\ RLt(RefDiffP(h, k), RefDiffM(h, k))
    THEN RefDiffM(h, k)
    ELSE ToR(0)
RefTR(h, k) ==
    RMax(RMax(RSub(h[k][1], h[k][2]), RAbs(RSub(h[k][1], h[k - 1][3]))),
         RAbs(RSub(h[k][2], h[k - 1][3])))

\* The plain sums of the first period raw values (bars 2 to period+1).
RefPlainPlusDM(h, p) == RSumSeq([k \in 1..p |-> RefPlusDM(h, k + 1)])
RefPlainMinusDM(h, p) == RSumSeq([k \in 1..p |-> RefMinusDM(h, k + 1)])
RefPlainTR(h, p) == RSumSeq([k \in 1..p |-> RefTR(h, k + 1)])

\* +DI, -DI and DX from given sums, rounded after each division when
\* rounding is enabled.
RefRound(x) == IF rnd THEN RRound(x) ELSE x
RefDI(dm, tr) ==
    IF RLe(tr, ToR(0)) THEN ToR(0) ELSE RefRound(RMul(ToR(100), RDiv(dm, tr)))
RefDX(plus_dm, minus_dm, tr) ==
    LET plus_di == RefDI(plus_dm, tr)
        minus_di == RefDI(minus_dm, tr)
    IN IF RLe(RAdd(plus_di, minus_di), ToR(0))
       THEN ToR(0)
       ELSE RefRound(RMul(ToR(100),
                          RDiv(RAbs(RSub(plus_di, minus_di)), RAdd(plus_di, minus_di))))

\* C18: on the first-smoothing tick (call period+1) the tick's raw values are
\* added to the running sums once, the first DX is derived from the plain
\* sums of the first period raw values, and the Wilder recurrence does not
\* decay the sums yet: at the end of the tick each running sum equals the
\* plain sum of the period raw values.
C18_FirstSmoothingKeepsPlainSums ==
    (engine = "ADX" /\ op = "next" /\ Len(hist) = arg + 1) =>
        /\ adx.dx_values = <<RefDX(RefPlainPlusDM(hist, arg),
                                   RefPlainMinusDM(hist, arg),
                                   RefPlainTR(hist, arg))>>
        /\ adx.prev_plus_dm = RefPlainPlusDM(hist, arg)
        /\ adx.prev_minus_dm = RefPlainMinusDM(hist, arg)
        /\ adx.prev_tr = RefPlainTR(hist, arg)

\* The part of C18 that the code keeps: the first DX comes from the plain
\* sums.
C18_FirstDxFromPlainSums ==
    (engine = "ADX" /\ op = "next" /\ Len(hist) = arg + 1) =>
        adx.dx_values = <<RefDX(RefPlainPlusDM(hist, arg),
                                RefPlainMinusDM(hist, arg),
                                RefPlainTR(hist, arg))>>

\* C19: in every reachable state the DX history holds at most period
\* values; once it holds period values a next call leaves its length and
\* contents as they are and takes the steady branch (it counts the tick in
\* the unstable-period counter, up to its limit, and returns the smoothed
\* ADX), and only reset empties it.
C19_DxHistoryBound ==
    /\ [](engine = "ADX" => Len(adx.dx_values) <= adx.period)
    /\ [][(engine = "ADX" /\ live /\ Len(adx.dx_values) = adx.period) =>
            /\ op' = "next" =>
                 /\ adx'.dx_values = adx.dx_values
                 /\ adx'.unstable_period_count =
                      (IF adx.unstable_period_count < adx.unstable_period
                       THEN adx.unstable_period_count + 1
                       ELSE adx.unstable_period_count)
                 /\ out' = adx'.prev_adx /\ ~IsNaN(out')
            /\ adx'.dx_values # adx.dx_values =>
                 (op' = "reset" /\ adx'.dx_values = <<>>)]_vars

\* Two steady ticks have followed the tick that filled the history.
C19_Witness ==
    /\ engine = "ADX" /\ op = "next"
    /\ Len(adx.dx_values) = adx.period
    /\ Len(hist) = 2 * adx.period + 2
    /\ adx.unstable_period_count = 2

\* C20: the value returned on the tick at which the DX history becomes full
\* (call 2*period) is the arithmetic mean of the period DX values in the
\* history, and the value returned on every later tick is
\* (previous ADX * (period - 1) + this tick's DX) / period, this tick's DX
\* being derived from the running sums as updated on the tick; each is
\* rounded to the nearest integer when rounding is enabled.
C20_AdxSeedAndSmoothing ==
    /\ []((engine = "ADX" /\ op = "next" /\ Len(hist) = 2 * arg) =>
            /\ Len(adx.dx_values) = arg
            /\ out = RefRound(RDiv(RSumSeq(adx.dx_values), ToR(arg))))
    /\ [][(engine = "ADX" /\ live /\ Len(hist) >= 2 * arg /\ op' = "next") =>
            out' = RefRound(RDiv(RAdd(RMul(adx.prev_adx, ToR(arg - 1)),
                                      RefDX(adx'.prev_plus_dm, adx'.prev_minus_dm,
                                            adx'.prev_tr)),
                                 ToR(arg)))]_vars
    /\ []((engine = "ADX" /\ op = "next" /\ Len(hist) >= 2 * arg) =>
            out = adx.prev_adx)

\* A steady tick with rounding enabled returned a value other than the
\* previous ADX, from a non-zero DX.
C20_Witness ==
    /\ engine = "ADX" /\ op = "next" /\ rnd
    /\ Len(hist) > 2 * arg
    /\ out # ToR(0) /\ out # adx.dx_values[1]
    /\ RefDX(adx.prev_plus_dm, adx.prev_minus_dm, adx.prev_tr) # ToR(0)
    /\ RefDX(adx.prev_plus_dm, adx.prev_minus_dm, adx.prev_tr) # out

\* The raw value that a next call added to a running sum, recovered from the
\* sum before (old) and after (new) the call of an instance self: a plain
\* addition while accumulating, the Wilder recurrence
\* new = old - old/period + raw afterwards, and on the first-smoothing tick
\* the addition followed by the recurrence.
UsedRaw(self, old, new) ==
    LET p == ToR(self.period)
        decayed(x) == RSub(x, RDiv(x, p))
    IN IF ~self.is_initialized
       THEN RSub(new, old)
       ELSE IF self.dx_values = <<>>
       THEN RDiv(RSub(new, decayed(old)), RSub(ToR(2), RDiv(ToR(1), p)))
       ELSE RSub(new, decayed(old))

\* C21: on every tick after the first, with diffP = high - prevHigh and
\* diffM = prevLow - low, the (+DM, -DM) that next feeds into the running
\* sums is (0, diffM) if diffM > 0 and diffP < diffM, (diffP, 0) if
\* diffP > 0 and diffP > diffM, and (0, 0) otherwise; both are >= 0, at most
\* one is non-zero, and both are zero when diffP = diffM.
C21_DirectionalMovementRule ==
    [][(engine = "ADX" /\ live /\ op' = "next" /\ Len(hist) >= 1) =>
        LET k == Len(hist')
            diffP == RSub(hist'[k][1], hist'[k - 1][1])
            diffM == RSub(hist'[k - 1][2], hist'[k][2])
            plus_dm == UsedRaw(adx, adx.prev_plus_dm, adx'.prev_plus_dm)
            minus_dm == UsedRaw(adx, adx.prev_minus_dm, adx'.prev_minus_dm)
        IN /\ (RGt(diffM, ToR(0)) /\ RLt(diffP, diffM))
                => (plus_dm = ToR(0) /\ minus_dm = diffM)
           /\ (~(RGt(diffM, ToR(0)) /\ RLt(diffP, diffM))
                 /\ RGt(diffP, ToR(0)) /\ RGt(diffP, diffM))
                => (plus_dm = diffP /\ minus_dm = ToR(0))
           /\ (~(RGt(diffM, ToR(0)) /\ RLt(diffP, diffM))
                 /\ ~(RGt(diffP, ToR(0)) /\ RGt(diffP, diffM)))
                => (plus_dm = ToR(0) /\ minus_dm = ToR(0))
           /\ RGe(plus_dm, ToR(0)) /\ RGe(minus_dm, ToR(0))
           /\ plus_dm = ToR(0) \/ minus_dm = ToR(0)
           /\ diffP = diffM => (plus_dm = ToR(0) /\ minus_dm = ToR(0))]_vars

\* A tick on which the high rose and the low fell by the same positive
\* amount, past the accumulating phase: neither sum received anything.
C21_Witness ==
    /\ engine = "ADX" /\ op = "next" /\ Len(hist) > arg + 1
    /\ LET k == Len(hist)
       IN /\ RSub(hist[k][1], hist[k - 1][1]) = RSub(hist[k - 1][2], hist[k][2])
          /\ RGt(RSub(hist[k][1], hist[k - 1][1]), ToR(0))

\* C22: in every reachable state of ADX the +DM, -DM and TR sums and
\* prev_adx are >= 0, and the true range and the directional movements of
\* every tick are >= 0, also for bars with high < low; in every reachable
\* state of RSI avg_gain, avg_loss and every queued gain and loss are >= 0.
C22_NonNegativity ==
    /\ [](/\ engine = "ADX" =>
               /\ RGe(adx.prev_plus_dm, ToR(0))
               /\ RGe(adx.prev_minus_dm, ToR(0))
               /\ RGe(adx.prev_tr, ToR(0))
               /\ RGe(adx.prev_adx, ToR(0))
          /\ engine = "RSI" =>
               /\ RGe(rsi.avg_gain, ToR(0))
               /\ RGe(rsi.avg_loss, ToR(0))
               /\ \A i \in 1..Len(rsi.price_changes) :
                    /\ RGe(rsi.price_changes[i][1], ToR(0))
                    /\ RGe(rsi.price_changes[i][2], ToR(0)))
    /\ [][(engine = "ADX" /\ live /\ op' = "next" /\ Len(hist) >= 1) =>
            /\ RGe(UsedRaw(adx, adx.prev_plus_dm, adx'.prev_plus_dm), ToR(0))
            /\ RGe(UsedRaw(adx, adx.prev_minus_dm, adx'.prev_minus_dm), ToR(0))
            /\ RGe(UsedRaw(adx, adx.prev_tr, adx'.prev_tr), ToR(0))]_vars

\* A bar with high < low has just been fed to an ADX past its accumulating
\* phase, and left non-zero sums.
C22_Witness ==
    /\ engine = "ADX" /\ op = "next" /\ Len(hist) > arg + 1
    /\ RLt(hist[Len(hist)][1], hist[Len(hist)][2])
    /\ RGt(adx.prev_minus_dm, ToR(0)) /\ RGt(adx.prev_tr, ToR(0))
    /\ RGt(adx.prev_adx, ToR(0))

\* C23: between construction (or reset) and the next reset the simple mean
\* over the full queue is computed on exactly one tick, the first at which
\* the queue holds period entries (call period+1); every later tick takes
\* the Wilder branch.  The branch is decided by the seed condition on the
\* instance as it is after the push and the eviction: the queue of the
\* successor state with the averages of the state before the call.
C23_RsiSeedsOnce ==
    [][(engine = "RSI" /\ live /\ op' = "next") =>
        LET n == Len(hist')
            decided == [rsi' EXCEPT !.avg_gain = rsi.avg_gain,
                                    !.avg_loss = rsi.avg_loss]
        IN /\ n = arg + 1 => SeedCondition(decided)
           /\ n > arg + 1 => ~SeedCondition(decided)]_vars

\* The sentinel case of the DI/DX derivation on given sums: the smoothed TR
\* is <= 0 (both DI are 0), or +DI + -DI is <= 0.
SentinelCase(plus_dm, minus_dm, tr) ==
    \/ RLe(tr, ToR(0))
    \/ RLe(RAdd(RefDI(plus_dm, tr), RefDI(minus_dm, tr)), ToR(0))

\* Every bar of a history is the same flat bar (high = low = close).
FlatBars(h) ==
    \A i \in 1..Len(h) : h[i] = h[1] /\ h[i][1] = h[i][2] /\ h[i][2] = h[i][3]

\* C24: on every tick past the accumulating phase the DX is 0 when the
\* smoothed TR is <= 0 or +DI + -DI is <= 0, nothing is divided by zero
\* (every stored value is a number), and identical flat bars give DX 0 on
\* every tick and an output of 0.0, not NaN, once the DX history is full.
C24_AdxZeroDivisionSentinels ==
    /\ []((engine = "ADX" /\ op = "next") =>
            LET n == Len(hist)
                p == arg
            IN /\ ~IsNaN(adx.prev_plus_dm) /\ ~IsNaN(adx.prev_minus_dm)
               /\ ~IsNaN(adx.prev_tr) /\ ~IsNaN(adx.prev_adx)
               /\ \A i \in 1..Len(adx.dx_values) : ~IsNaN(adx.dx_values[i])
               /\ n >= 2 * p => ~IsNaN(out)
               /\ (n = p + 1 /\ SentinelCase(RefPlainPlusDM(hist, p),
                                             RefPlainMinusDM(hist, p),
                                             RefPlainTR(hist, p)))
                    => adx.dx_values[1] = ToR(0)
               /\ (p + 2 <= n /\ n <= 2 * p
                     /\ SentinelCase(adx.prev_plus_dm, adx.prev_minus_dm, adx.prev_tr))
                    => adx.dx_values[Len(adx.dx_values)] = ToR(0)
               /\ FlatBars(hist) =>
                    /\ \A i \in 1..Len(adx.dx_values) : adx.dx_values[i] = ToR(0)
                    /\ n >= 2 * p => out = ToR(0))
    /\ [][(engine = "ADX" /\ live /\ op' = "next" /\ Len(hist) >= 2 * arg
             /\ SentinelCase(adx'.prev_plus_dm, adx'.prev_minus_dm, adx'.prev_tr)) =>
            out' = RefRound(RDiv(RMul(adx.prev_adx, ToR(arg - 1)), ToR(arg)))]_vars

\* Identical flat bars were fed until a steady tick returned 0.0.
C24_Witness ==
    /\ engine = "ADX" /\ op = "next"
    /\ FlatBars(hist) /\ Len(hist) > 2 * arg
    /\ adx.prev_tr = ToR(0) /\ out = ToR(0)

\* C25: in every reachable state unstable_period_count is between 0 and 15:
\* it is 0 until the first steady tick (call 2*period+1 since construction
\* or reset), one more after each steady tick while below 15, and 15 from
\* then on until reset; the value next returns does not depend on it: with
\* any other count the call returns the same value, and a number is returned
\* from the seed tick on.
C25_UnstableCounter ==
    (engine = "ADX" /\ live) =>
        LET n == Len(hist)
            steady == IF n > 2 * arg THEN n - 2 * arg ELSE 0
        IN /\ adx.unstable_period_count \in 0..15
           /\ adx.unstable_period_count = (IF steady < 15 THEN steady ELSE 15)
           /\ (op = "next" /\ n >= 2 * arg) => ~IsNaN(out)
           /\ \A c \in 0..15 : \A bar \in LongRunBars :
                ADX_next([adx EXCEPT !.unstable_period_count = c], bar).ret
                    = ADX_next(adx, bar).ret

\* The counter reached 15 and a later steady tick left it there and returned
\* a non-zero value.
C25_Witness ==
    /\ engine = "ADX" /\ op = "next"
    /\ Len(hist) > 2 * arg + 15
    /\ adx.unstable_period_count = 15
    /\ ~IsNaN(out) /\ out # ToR(0)
\* C26: in every reachable state of ADX the three previous values are all
\* set or all unset; while is_initialized is false the DX history is empty,
\* prev_adx is 0 and dx_count < period - 1; while it is true dx_count is 0 and
\* the previous values are set; prev_adx is non-zero only when the DX history
\* holds period entries.
C26_AdxPhaseConsistency ==
    (engine = "ADX" /\ live) =>
        /\ (adx.prev_high = None) = (adx.prev_low = None)
        /\ (adx.prev_low = None) = (adx.prev_close = None)
        /\ ~adx.is_initialized =>
               /\ adx.dx_values = <<>>
               /\ adx.prev_adx = ToR(0)
               /\ adx.dx_count < adx.period - 1
        /\ adx.is_initialized =>
               /\ adx.dx_count = 0
               /\ adx.prev_high # None /\ adx.prev_low # None /\ adx.prev_close # None
        /\ adx.prev_adx # ToR(0) => Len(adx.dx_values) = adx.period

\* A next call left an initialized instance with a full DX history and a
\* non-zero ADX.
C26_Witness ==
    /\ engine = "ADX" /\ op = "next"
    /\ adx.is_initialized /\ Len(adx.dx_values) = adx.period
    /\ adx.prev_adx # ToR(0) /\ adx.dx_count = 0
\* C27: after every call the RSI queue holds min(n - 1, period) pairs, n the
\* number of next calls since construction or the last reset; they are the
\* gain/loss pairs of the most recent price changes, oldest first; the length
\* never exceeds period; the first call leaves the queue and both averages as
\* they were.
C27_QueueLength == IF Len(hist) = 0 THEN 0
                   ELSE IF Len(hist) - 1 < arg THEN Len(hist) - 1 ELSE arg

C27_RsiQueueBound ==
    /\ []((engine = "RSI" /\ live) =>
            LET n == Len(hist)
                k == C27_QueueLength
            IN /\ Len(rsi.price_changes) = k
               /\ Len(rsi.price_changes) <= rsi.period
               /\ \A j \in 1..k :
                     rsi.price_changes[j] = <<RefGain(hist, n - 1 - k + j),
                                              RefLoss(hist, n - 1 - k + j)>>)
    /\ [][(engine = "RSI" /\ live /\ op' = "next" /\ Len(hist') = 1) =>
            /\ rsi'.price_changes = rsi.price_changes
            /\ rsi'.avg_gain = rsi.avg_gain
            /\ rsi'.avg_loss = rsi.avg_loss]_vars

\* A call evicted a pair: more than period + 1 calls were made, and the queue
\* holds period pairs, the oldest a gain and the newest a loss.
C27_Witness ==
    /\ engine = "RSI" /\ op = "next"
    /\ Len(hist) > arg + 1 /\ arg >= 2
    /\ Len(rsi.price_changes) = arg
    /\ RLt(ToR(0), rsi.price_changes[1][1])
    /\ RLt(ToR(0), rsi.price_changes[arg][2])

====
